---- MODULE Spec2Model ----
(***************************************************************************)
(* Account erasure engine of the social backend (src/src/utils/hash.ts,    *)
(* section deleteUserAndData.ts): validateUserDeletion, softDeleteUser,    *)
(* deleteInBatches, deleteUserAndData and previewUserDeletion, run against *)
(* a relational store with an interactive transaction.                     *)
(***************************************************************************)
EXTENDS Integers, FiniteSets, Sequences, TLC

(***************************************************************************)
(* Bounds of the model                                                     *)
(***************************************************************************)
\* rows seeded per (family, owner pattern)
MaxRows == 1
\* largest wall-clock reading (Date.now()) of the model
MaxTime == 1
\* largest row count / batch size explored for the purger run on its own
MaxN == 6
MaxBatch == 3

(***************************************************************************)
(* Program constants                                                       *)
(***************************************************************************)
BATCH_SIZE == 1000
BATCH_DELAY_MS == 100

Min(a, b) == IF a <= b THEN a ELSE b

(***************************************************************************)
(* Users and entity families                                               *)
(***************************************************************************)
Users == {"u1", "u2", "u3"}
\* an id for which no User row ever exists
MissingId == "u9"
UserIds == Users \cup {MissingId}

\* a cascade that deletes the stories before their views, likes and highlights
PurgeOrderStoriesFirst ==
  << <<"story", "stories">>,
     <<"storyView", "storyViews">>,
     <<"storyLike", "storyLikes">>,
     <<"storyHighlight", "storyHighlights">>,
     <<"commentLike", "commentLikes">>,
     <<"commentAuthorInfo", "commentAuthorInfo">>,
     <<"comment", "comments">>,
     <<"message", "messages">>,
     <<"conversation", "conversations">>,
     <<"like", "likes">>,
     <<"savedPost", "savedPosts">>,
     <<"followRequest", "followRequests">>,
     <<"follow", "follows">>,
     <<"notification", "notifications">>,
     <<"userMedia", "userMedia">>,
     <<"userActivityLog", "userActivityLogs">>,
     <<"userSettings", "userSettings">>,
     <<"userRole", "userRoles">>,
     <<"verificationToken", "verificationTokens">>,
     <<"session", "sessions">>,
     <<"postTag", "postTags">>,
     <<"post", "posts">>,
     <<"report", "reports">> >>

\* a cascade that purges the reports first
PurgeOrderReportsFirst ==
  << <<"report", "reports">>,
     <<"storyView", "storyViews">>,
     <<"storyLike", "storyLikes">>,
     <<"storyHighlight", "storyHighlights">>,
     <<"story", "stories">>,
     <<"commentLike", "commentLikes">>,
     <<"commentAuthorInfo", "commentAuthorInfo">>,
     <<"comment", "comments">>,
     <<"message", "messages">>,
     <<"conversation", "conversations">>,
     <<"like", "likes">>,
     <<"savedPost", "savedPosts">>,
     <<"followRequest", "followRequests">>,
     <<"follow", "follows">>,
     <<"notification", "notifications">>,
     <<"userMedia", "userMedia">>,
     <<"userActivityLog", "userActivityLogs">>,
     <<"userSettings", "userSettings">>,
     <<"userRole", "userRoles">>,
     <<"verificationToken", "verificationTokens">>,
     <<"session", "sessions">>,
     <<"postTag", "postTags">>,
     <<"post", "posts">> >>

\* the purge order of deleteUserAndData: (prisma model, deletedCounts key)
PurgeOrder ==
  << <<"storyView", "storyViews">>,
     <<"storyLike", "storyLikes">>,
     <<"storyHighlight", "storyHighlights">>,
     <<"story", "stories">>,
     <<"commentLike", "commentLikes">>,
     <<"commentAuthorInfo", "commentAuthorInfo">>,
     <<"comment", "comments">>,
     <<"message", "messages">>,
     <<"conversation", "conversations">>,
     <<"like", "likes">>,
     <<"savedPost", "savedPosts">>,
     <<"followRequest", "followRequests">>,
     <<"follow", "follows">>,
     <<"notification", "notifications">>,
     <<"userMedia", "userMedia">>,
     <<"userActivityLog", "userActivityLogs">>,
     <<"userSettings", "userSettings">>,
     <<"userRole", "userRoles">>,
     <<"verificationToken", "verificationTokens">>,
     <<"session", "sessions">>,
     <<"postTag", "postTags">>,
     <<"post", "posts">>,
     <<"report", "reports">> >>

NumFamilies == Len(PurgeOrder)
ModelAt(i) == PurgeOrder[i][1]
KeyAt(i) == PurgeOrder[i][2]
Families == {ModelAt(i) : i \in 1..NumFamilies}
Tables == Families \cup {"user"}
CountKeys == {KeyAt(i) : i \in 1..NumFamilies}

(***************************************************************************)
(* Relations of the schema: (child family, foreign-key field, parent).     *)
(* The relation filters and key fields are the ones the code names; the    *)
(* store refuses to delete a parent row that a child row still references  *)
(* (P2003).                                                                *)
(***************************************************************************)
ParentRelations ==
  { <<"storyView", "storyId", "story">>,
    <<"storyLike", "storyId", "story">>,
    <<"storyHighlight", "storyId", "story">>,
    <<"commentLike", "commentId", "comment">>,
    <<"commentAuthorInfo", "commentId", "comment">>,
    <<"comment", "postId", "post">>,
    <<"like", "postId", "post">>,
    <<"savedPost", "postId", "post">>,
    <<"postTag", "postId", "post">>,
    <<"message", "conversationId", "conversation">> }

UserRelations ==
  { <<"storyView", "viewerId", "user">>,
    <<"storyLike", "userId", "user">>,
    <<"storyHighlight", "userId", "user">>,
    <<"story", "userId", "user">>,
    <<"commentLike", "userId", "user">>,
    <<"commentAuthorInfo", "authorId", "user">>,
    <<"comment", "authorId", "user">>,
    <<"message", "senderId", "user">>,
    <<"message", "recipientId", "user">>,
    <<"conversation", "user1Id", "user">>,
    <<"conversation", "user2Id", "user">>,
    <<"like", "userId", "user">>,
    <<"savedPost", "userId", "user">>,
    <<"followRequest", "senderId", "user">>,
    <<"followRequest", "receiverId", "user">>,
    <<"follow", "followerId", "user">>,
    <<"follow", "followingId", "user">>,
    <<"notification", "userId", "user">>,
    <<"notification", "actorId", "user">>,
    <<"userMedia", "userId", "user">>,
    <<"userActivityLog", "userId", "user">>,
    <<"userSettings", "userId", "user">>,
    <<"userRole", "userId", "user">>,
    <<"verificationToken", "userId", "user">>,
    <<"session", "userId", "user">>,
    <<"post", "authorId", "user">>,
    <<"report", "reporterId", "user">> }

ForeignKeys == ParentRelations \cup UserRelations

\* the rows of a parent table with the given primary key
RowsById(store, table, id) == {p \in store[table] : p.id = id}

\* a child row references one of the given parent rows
References(row, field, parents) == \E p \in parents : row[field] = p.id

(***************************************************************************)
(* Stores the application flows can have produced.  A store maps every     *)
(* table to its set of rows.  Every child row references an existing       *)
(* parent row and an existing user.                                        *)
(***************************************************************************)
RowIdx == 1..MaxRows
Clusters == {"story", "content", "account"}
Roles == {"ADMIN", "USER", "none"}

UserRow(u, banned) ==
  [id |-> u, email |-> <<"mail", u>>, username |-> <<"name", u>>,
   isActive |-> ~banned, isBanned |-> banned]

StoryRows == {[id |-> <<"story", o, i>>, userId |-> o] : o \in Users, i \in RowIdx}
PostRows == {[id |-> <<"post", a, i>>, authorId |-> a] : a \in Users, i \in RowIdx}
\* with engage, users also comment on, like and save posts of other users
CommentRows(engage) ==
  {[id |-> <<"comment", a, p.id>>, authorId |-> a, postId |-> p.id] :
     <<a, p>> \in {x \in Users \X PostRows : engage \/ x[1] = x[2].authorId}}
ConversationRows ==
  {[id |-> <<"conv", pr[1], pr[2], i>>, user1Id |-> pr[1], user2Id |-> pr[2]] :
     <<pr, i>> \in {<<"u1", "u2">>, <<"u1", "u3">>, <<"u2", "u3">>} \X RowIdx}
OwnedRows == {[userId |-> u, n |-> i] : u \in Users, i \in RowIdx}

SeedTable(t, engage, role1, banned1) ==
  CASE t = "user" ->
         {UserRow(u, banned1 /\ u = "u1") : u \in Users}
    [] t = "userRole" ->
         {[userId |-> u, role |-> IF u = "u1" THEN role1 ELSE "USER"] :
            u \in {x \in Users : x # "u1" \/ role1 # "none"}}
    [] t = "story" -> StoryRows
    [] t = "storyView" ->
         {[viewerId |-> v, storyId |-> s.id] : v \in Users, s \in StoryRows}
    [] t = "storyLike" ->
         {[userId |-> v, storyId |-> s.id] : v \in Users, s \in StoryRows}
    [] t = "storyHighlight" ->
         {[userId |-> s.userId, storyId |-> s.id] : s \in StoryRows}
    [] t = "post" ->
         {[id |-> p.id, authorId |-> p.authorId,
           likesCount |-> IF engage THEN Cardinality(Users) ELSE 1] : p \in PostRows}
    [] t = "postTag" -> {[postId |-> p.id, tagId |-> "t"] : p \in PostRows}
    [] t = "comment" -> CommentRows(engage)
    [] t = "commentAuthorInfo" ->
         {[commentId |-> c.id, authorId |-> c.authorId] : c \in CommentRows(engage)}
    [] t = "commentLike" ->
         {[userId |-> v, commentId |-> c.id] : v \in Users, c \in CommentRows(engage)}
    [] t = "like" ->
         {[userId |-> x[1], postId |-> x[2].id, isRemoved |-> FALSE] :
            x \in {y \in Users \X PostRows : engage \/ y[1] = y[2].authorId}}
    [] t = "savedPost" ->
         {[userId |-> x[1], postId |-> x[2].id] :
            x \in {y \in Users \X PostRows : engage \/ y[1] = y[2].authorId}}
    [] t = "report" -> {[reporterId |-> r.userId, n |-> r.n] : r \in OwnedRows}
    [] t = "conversation" -> ConversationRows
    [] t = "message" ->
         {[conversationId |-> c.id, senderId |-> c.user1Id, recipientId |-> c.user2Id] :
            c \in ConversationRows}
         \cup
         {[conversationId |-> c.id, senderId |-> c.user2Id, recipientId |-> c.user1Id] :
            c \in ConversationRows}
    [] t = "follow" ->
         {[followerId |-> x[1], followingId |-> x[2]] :
            x \in {y \in Users \X Users : y[1] # y[2]}}
    [] t = "followRequest" ->
         {[senderId |-> x[1], receiverId |-> x[2]] :
            x \in {y \in Users \X Users : y[1] # y[2]}}
    [] t = "notification" ->
         {[userId |-> x[1], actorId |-> x[2], n |-> x[3]] : x \in Users \X Users \X RowIdx}
    [] OTHER -> OwnedRows

ClusterOf(t) ==
  CASE t \in {"user", "userRole"} -> "always"
    [] t \in {"story", "storyView", "storyLike", "storyHighlight"} -> "story"
    [] t \in {"post", "postTag", "comment", "commentAuthorInfo", "commentLike",
              "like", "savedPost", "report"} -> "content"
    [] OTHER -> "account"

SeedStore(populated, engage, role1, banned1) ==
  [t \in Tables |->
     IF ClusterOf(t) \in populated \cup {"always"}
     THEN SeedTable(t, engage, role1, banned1)
     ELSE {}]

Seeds ==
  {SeedStore(pop, eng, r, b) :
     <<pop, eng, r, b>> \in
       {x \in (SUBSET Clusters) \X BOOLEAN \X Roles \X BOOLEAN :
          x[2] => "content" \in x[1]}}

(***************************************************************************)
(* The where-conditions of the cascade and the store's deleteMany          *)
(***************************************************************************)
\* the where-condition deleteUserAndData passes for a family, evaluated on
\* a row inside the given store (relation filters look the parent up)
Where(model, userId, row, store) ==
  CASE model = "storyView" ->
         \/ row.viewerId = userId
         \/ \E s \in RowsById(store, "story", row.storyId) : s.userId = userId
    [] model = "storyLike" ->
         \/ row.userId = userId
         \/ \E s \in RowsById(store, "story", row.storyId) : s.userId = userId
    [] model = "commentLike" ->
         \/ row.userId = userId
         \/ \E c \in RowsById(store, "comment", row.commentId) : c.authorId = userId
    [] model \in {"commentAuthorInfo", "comment", "post"} -> row.authorId = userId
    [] model = "message" -> row.senderId = userId \/ row.recipientId = userId
    [] model = "conversation" -> row.user1Id = userId \/ row.user2Id = userId
    [] model = "followRequest" -> row.senderId = userId \/ row.receiverId = userId
    [] model = "follow" -> row.followerId = userId \/ row.followingId = userId
    [] model = "notification" -> row.userId = userId \/ row.actorId = userId
    [] model = "postTag" ->
         \E p \in RowsById(store, "post", row.postId) : p.authorId = userId
    [] model = "report" -> row.reporterId = userId
    [] model = "user" -> row.id = userId
    [] OTHER -> row.userId = userId

\* a filter that matches every row of the table
MatchingWholeTable(store, model, userId) == store[model]

Matching(store, model, userId) ==
  {r \in store[model] : Where(model, userId, r, store)}

\* rows one deleteMany({where, take}) call may remove: every choice of
\* min(take, matching) matching rows
DeleteManyCount(n, take) == Min(n, take)

DeleteManyChoices(store, model, userId, take) ==
  LET m == Matching(store, model, userId)
  IN  IF take >= Cardinality(m)
      THEN {m}
      ELSE {S \in SUBSET m : Cardinality(S) = DeleteManyCount(Cardinality(m), take)}

\* the store refuses (P2003) to remove parent rows still referenced
FkViolation(store, table, removed) ==
  \E fk \in ForeignKeys :
     /\ fk[3] = table
     /\ \E r \in store[fk[1]] : References(r, fk[2], removed)

Remove(store, table, removed) ==
  [store EXCEPT ![table] = @ \ removed]

(***************************************************************************)
(* Errors                                                                  *)
(***************************************************************************)
\* codes of PrismaClientKnownRequestError the store can raise
KnownCodes == {"P2003", "P2025", "P2034", "P2028"}
\* message texts carried by data-store errors (texts are sequences of pieces)
StoreMessages == {<<"msgA">>, <<"msgB">>}

\* errors a data-store call can raise: a known request error with a code, any
\* other Error, or a thrown value that is not an Error
StoreErrors ==
  [kind : {"known"}, code : KnownCodes, message : StoreMessages]
  \cup [kind : {"error"}, code : {"none"}, message : StoreMessages]
  \cup {[kind |-> "nonError", code |-> "none", message |-> << >>]}

FkError == [kind |-> "known", code |-> "P2003", message |-> <<"msgA">>]
\* raised by an update that would duplicate the value of a unique field
UniqueConstraintError ==
  [kind |-> "known", code |-> "P2002",
   message |-> <<"Unique constraint failed on the fields">>]
\* raised by update and delete on a row that does not exist
RecordNotFoundError ==
  [kind |-> "known", code |-> "P2025",
   message |-> <<"An operation failed because it depends on one or more records that were required but not found.">>]

NotFoundError(userId) ==
  [kind |-> "error", code |-> "none",
   message |-> <<"User with id", userId, "not found">>]
AdminError ==
  [kind |-> "error", code |-> "none",
   message |-> <<"Cannot delete admin users through this method. Use admin-specific deletion process.">>]

\* the class of the error taxonomy an error belongs to, as the catch block of
\* deleteUserAndData tells them apart for its log
ErrorClass(e, userId) ==
  IF e = NotFoundError(userId) THEN "NotFound"
  ELSE IF e = AdminError THEN "ProtectedAccount"
  ELSE IF e.kind = "known" /\ e.code = "P2003" THEN "ReferentialOrderingViolation"
  ELSE IF e.kind = "known" /\ e.code = "P2025" THEN "AlreadyDeleted"
  ELSE IF e.kind = "known" /\ e.code = "P2034" THEN "TransactionConflict"
  ELSE "Unknown"

\* the Error deleteUserAndData throws to its caller
WrapError(e, userId) ==
  [name |-> "Error",
   message |-> <<"Failed to delete user", userId>>
                 \o (IF e.kind = "nonError" THEN <<"Unknown error occurred">>
                                             ELSE e.message)]

(***************************************************************************)
(* State                                                                   *)
(***************************************************************************)
VARIABLES
  db,             \* the committed store, what every other connection reads
  tx,             \* the store as seen inside the open erasure transaction
  pc,             \* position of the running deleteUserAndData call
  args,           \* its arguments [userId, enableSoftDelete]
  step,           \* index into PurgeOrder of the family being purged
  totalDeleted,   \* deleteInBatches: rows removed so far from that family
  deletedCounts,  \* the deletedCounts object of the call
  result,         \* value returned to the caller
  thrown,         \* Error thrown to the caller
  errClass,       \* taxonomy class of the failure that occurred
  db0,            \* the committed store when the call started
  purged,         \* families whose purge has completed in this run, in order
  dirtyAtFail,    \* the failed run had already purged rows of some family
  failedAt,       \* where the run failed: lookup, preflight, begin or a TxSteps
  lastFail,       \* the previous failure a caller has seen (thrown, class)
  bpc,            \* deleteInBatches run on its own: position
  bN,             \*   rows matching the filter when it was called
  bRows,          \*   rows still matching
  bSize,          \*   its batchSize argument
  bTotal,         \*   totalDeleted
  bCalls,         \*   result.count of every deleteMany call so far
  bPauses,        \*   inter-batch pauses taken
  pv,             \* the running or finished previewUserDeletion call
  pvPrev,         \* userId and counts of the preview that returned before it
  http            \* the delete-account HTTP request being handled and its reply

eraseVars == <<db, tx, pc, args, step, totalDeleted, deletedCounts, result,
               thrown, errClass, db0, purged, dirtyAtFail, failedAt, lastFail>>
batchVars == <<bpc, bN, bRows, bSize, bTotal, bCalls, bPauses>>
previewVars == <<pv, pvPrev>>
httpVars == <<http>>
vars == <<eraseVars, batchVars, previewVars, httpVars>>

None == [none |-> TRUE]
NoArgs == [userId |-> "none", enableSoftDelete |-> FALSE]
NoCounts == [k \in {} |-> 0]
Times == 0..MaxTime

IdleErase ==
  /\ pc = "idle"
  /\ args = NoArgs
  /\ step = 0
  /\ totalDeleted = 0
  /\ deletedCounts = NoCounts
  /\ result = None
  /\ thrown = None
  /\ errClass = "none"
  /\ purged = << >>
  /\ dirtyAtFail = FALSE
  /\ failedAt = "none"
  /\ lastFail = None

IdleBatch ==
  /\ bpc = "off"
  /\ bN = 0
  /\ bRows = 0
  /\ bSize = 0
  /\ bTotal = 0
  /\ bCalls = << >>
  /\ bPauses = 0

\* no previewUserDeletion call is in progress
NoPreview == [status |-> "none", userId |-> "none", counts |-> NoCounts,
              idx |-> 0, failedKey |-> "none"]

IdlePreview ==
  /\ pv = NoPreview
  /\ pvPrev = None

\* no HTTP request has been received
NoRequest == [stage |-> "idle", route |-> "none", userId |-> "none",
              cookieCleared |-> FALSE, response |-> None, outcome |-> "none"]

IdleHttp == http = NoRequest

Init ==
  /\ db \in Seeds
  /\ tx = db
  /\ db0 = db
  /\ IdleErase
  /\ IdleBatch
  /\ IdlePreview
  /\ IdleHttp

(***************************************************************************)
(* deleteUserAndData                                                       *)
(***************************************************************************)
\* a catch block whose transaction keeps the writes made before the error
FailWithoutRollback(e, where) ==
  /\ pc' = "failed"
  /\ failedAt' = where
  /\ thrown' = WrapError(e, args.userId)
  /\ errClass' = ErrorClass(e, args.userId)
  /\ dirtyAtFail' = (\E f \in Families : tx[f] # db[f])
  /\ db' = tx
  /\ step' = 0
  /\ totalDeleted' = 0
  /\ deletedCounts' = NoCounts
  /\ purged' = << >>
  /\ UNCHANGED <<tx, args, result, db0, lastFail>>

\* a catch block after a soft delete that was not part of the transaction:
\* the purges are rolled back, the scrambled User row stays
FailKeepsSoftDelete(e, where) ==
  /\ pc' = "failed"
  /\ failedAt' = where
  /\ thrown' = WrapError(e, args.userId)
  /\ errClass' = ErrorClass(e, args.userId)
  /\ dirtyAtFail' = (\E f \in Families : tx[f] # db[f])
  /\ db' = [db EXCEPT !["user"] = tx["user"]]
  /\ tx' = db'
  /\ step' = 0
  /\ totalDeleted' = 0
  /\ deletedCounts' = NoCounts
  /\ purged' = << >>
  /\ UNCHANGED <<args, result, db0, lastFail>>

\* a catch block that logs the error and lets the run go on
FailSwallowed(e, where) ==
  /\ failedAt' = where
  /\ thrown' = WrapError(e, args.userId)
  /\ errClass' = ErrorClass(e, args.userId)
  /\ UNCHANGED <<db, tx, pc, args, step, totalDeleted, deletedCounts, result,
                 db0, purged, dirtyAtFail, lastFail>>

\* catch block: the transaction (if open) is rolled back and a wrapped Error
\* is thrown to the caller
Fail(e, where) ==
  /\ pc' = "failed"
  /\ failedAt' = where
  /\ thrown' = WrapError(e, args.userId)
  /\ errClass' = ErrorClass(e, args.userId)
  /\ dirtyAtFail' = (\E f \in Families : tx[f] # db[f])
  /\ tx' = db
  /\ step' = 0
  /\ totalDeleted' = 0
  /\ deletedCounts' = NoCounts
  /\ purged' = << >>
  /\ UNCHANGED <<db, args, result, db0, lastFail>>

\* a caller invokes deleteUserAndData(userId, enableSoftDelete)
Call(userId, enableSoftDelete) ==
  /\ pc = "idle"
  /\ UNCHANGED <<batchVars, httpVars, previewVars>>
  /\ pc' = "validate"
  /\ args' = [userId |-> userId, enableSoftDelete |-> enableSoftDelete]
  /\ deletedCounts' = NoCounts
  /\ db0' = db
  /\ UNCHANGED <<db, tx, step, totalDeleted, result, thrown, errClass, purged,
                 dirtyAtFail, failedAt, lastFail>>

\* the role of a user as validateUserDeletion loads it (include: role)
RoleOf(store, userId) ==
  IF \E r \in store["userRole"] : r.userId = userId
  THEN (CHOOSE r \in store["userRole"] : r.userId = userId).role
  ELSE "none"

\* a validator without the administrator check
ValidationErrorNoRoleCheck(store, userId) ==
  IF Matching(store, "user", userId) = {} THEN NotFoundError(userId)
  ELSE None

\* a validator without the existence check
ValidationErrorNoUserCheck(store, userId) ==
  IF RoleOf(store, userId) = "ADMIN" THEN AdminError
  ELSE None

\* a validator that turns banned or inactive accounts away
ValidationErrorRejectsBanned(store, userId) ==
  IF Matching(store, "user", userId) = {} THEN NotFoundError(userId)
  ELSE IF RoleOf(store, userId) = "ADMIN" THEN AdminError
  ELSE IF \E r \in Matching(store, "user", userId) : r.isBanned \/ ~r.isActive
    THEN AdminError
  ELSE None

\* the error validateUserDeletion throws for a user, or None
ValidationError(store, userId) ==
  IF Matching(store, "user", userId) = {} THEN NotFoundError(userId)
  ELSE IF RoleOf(store, userId) = "ADMIN" THEN AdminError
  ELSE None

\* Step 1: validateUserDeletion, on the global (non-transactional) client
Validate ==
  /\ pc = "validate"
  /\ UNCHANGED <<batchVars, httpVars, previewVars>>
  /\ \/ \E e \in StoreErrors : Fail(e, "lookup")
     \/ IF ValidationError(db, args.userId) # None
        THEN Fail(ValidationError(db, args.userId), "preflight")
        ELSE /\ pc' = "begin"
             /\ UNCHANGED <<db, tx, args, step, totalDeleted, deletedCounts,
                            result, thrown, errClass, db0, purged, dirtyAtFail,
                            failedAt, lastFail>>

\* a transaction that starts with the purges although the guard is enabled
BeginTxSkipsSoftDelete ==
  /\ pc = "begin"
  /\ UNCHANGED <<batchVars, httpVars, previewVars>>
  /\ tx' = db
  /\ pc' = "purge"
  /\ step' = 1
  /\ totalDeleted' = 0
  /\ UNCHANGED <<db, args, deletedCounts, result, thrown, errClass, db0,
                 purged, dirtyAtFail, failedAt, lastFail>>

\* prisma.$transaction opens the interactive transaction
BeginTx ==
  /\ pc = "begin"
  /\ UNCHANGED <<batchVars, httpVars, previewVars>>
  /\ \/ \E e \in StoreErrors : Fail(e, "begin")
     \/ /\ tx' = db
        /\ pc' = IF args.enableSoftDelete THEN "softDelete" ELSE "purge"
        /\ step' = 1
        /\ totalDeleted' = 0
        /\ UNCHANGED <<db, args, deletedCounts, result, thrown, errClass, db0,
                       purged, dirtyAtFail, failedAt, lastFail>>

\* the row softDeleteUser writes, with the two Date.now() readings
SoftDeleted(row, t1, t2) ==
  [row EXCEPT !.isActive = FALSE, !.isBanned = TRUE,
              !.email = <<"deleted", t1>>, !.username = <<"deleted", t2>>]

\* prisma.user.update({where: {id}}) with the soft-delete data
UpdateUser(store, userId, t1, t2) ==
  [store EXCEPT !["user"] =
     {IF r.id = userId THEN SoftDeleted(r, t1, t2) ELSE r : r \in @}]

\* the update would give the user an email or a username that another User
\* row already has (unique fields; the store refuses with P2002)
UniqueConflict(store, userId, t1, t2) ==
  \E r \in store["user"] :
     /\ r.id # userId
     /\ \/ r.email = <<"deleted", t1>>
        \/ r.username = <<"deleted", t2>>

\* a soft delete issued on the global client instead of the transaction client
SoftDeleteOutsideTx ==
  /\ pc = "softDelete"
  /\ UNCHANGED <<batchVars, httpVars, previewVars>>
  /\ \E t1 \in Times : \E t2 \in t1..MaxTime :
       /\ tx' = [tx EXCEPT !["user"] =
                   {IF r.id = args.userId THEN SoftDeleted(r, t1, t2) ELSE r :
                      r \in @}]
       /\ db' = tx'
       /\ pc' = "purge"
       /\ UNCHANGED <<args, step, totalDeleted, deletedCounts, result,
                      thrown, errClass, db0, purged, dirtyAtFail,
                      failedAt, lastFail>>

\* Step 2: softDeleteUser, first write inside the transaction
SoftDelete ==
  /\ pc = "softDelete"
  /\ UNCHANGED <<batchVars, httpVars, previewVars>>
  /\ \/ \E e \in StoreErrors : Fail(e, "softDelete")
     \/ IF Matching(tx, "user", args.userId) = {}
        THEN Fail(RecordNotFoundError, "softDelete")
        ELSE \E t1 \in Times : \E t2 \in t1..MaxTime :
               IF UniqueConflict(tx, args.userId, t1, t2)
               THEN Fail(UniqueConstraintError, "softDelete")
               ELSE /\ tx' = UpdateUser(tx, args.userId, t1, t2)
                    /\ pc' = "purge"
                    /\ UNCHANGED <<db, args, step, totalDeleted, deletedCounts,
                                   result, thrown, errClass, db0, purged,
                                   dirtyAtFail, failedAt, lastFail>>

\* a loop that goes on until a call removes nothing
ShouldContinueUntilEmpty(count, batchSize) == count > 0

\* a loop whose condition is never cleared
ShouldContinueAlways(count, batchSize) == TRUE

\* a loop that takes a full batch for the end of the family
ShouldContinueAboveBatch(count, batchSize) == count > batchSize

\* deleteInBatches: the loop goes on exactly after a full batch
ShouldContinue(count, batchSize) == count = batchSize

\* a total that misses the batch just removed
AddCountStale(total, count) == total

\* deleteInBatches: totalDeleted += result.count
AddCount(total, count) == total + count

\* Step 3: one deleteMany call of deleteInBatches on the current family
DeleteManyCall ==
  /\ pc = "purge"
  /\ UNCHANGED <<batchVars, httpVars, previewVars>>
  /\ \/ \E e \in StoreErrors : Fail(e, "purge")
     \/ \E removed \in DeleteManyChoices(tx, ModelAt(step), args.userId, BATCH_SIZE) :
          IF FkViolation(tx, ModelAt(step), removed)
          THEN Fail(FkError, "purge")
          ELSE /\ tx' = Remove(tx, ModelAt(step), removed)
               /\ IF ShouldContinue(Cardinality(removed), BATCH_SIZE)
                  THEN /\ totalDeleted' = AddCount(totalDeleted, Cardinality(removed))
                       /\ UNCHANGED <<pc, step, deletedCounts, purged>>
                  ELSE /\ deletedCounts' =
                            (KeyAt(step) :> AddCount(totalDeleted, Cardinality(removed)))
                              @@ deletedCounts
                       /\ purged' = Append(purged, ModelAt(step))
                       /\ totalDeleted' = 0
                       /\ IF step < NumFamilies
                          THEN step' = step + 1 /\ pc' = pc
                          ELSE step' = step /\ pc' = "userDelete"
               /\ UNCHANGED <<db, args, result, thrown, errClass, db0, dirtyAtFail,
                              failedAt, lastFail>>

\* a final step that counts the user without deleting the row
UserDeleteKeepsRow ==
  /\ pc = "userDelete"
  /\ UNCHANGED <<batchVars, httpVars, previewVars>>
  /\ deletedCounts' = ("user" :> 1) @@ deletedCounts
  /\ purged' = Append(purged, "user")
  /\ pc' = "commit"
  /\ UNCHANGED <<db, tx, args, step, totalDeleted, result, thrown,
                 errClass, db0, dirtyAtFail, failedAt, lastFail>>

\* a final step that takes a missing User row for a finished erasure
UserDeleteIfExists ==
  /\ pc = "userDelete"
  /\ UNCHANGED <<batchVars, httpVars, previewVars>>
  /\ LET rows == Matching(tx, "user", args.userId)
     IN  /\ tx' = Remove(tx, "user", rows)
         /\ deletedCounts' = ("user" :> 1) @@ deletedCounts
         /\ purged' = Append(purged, "user")
         /\ pc' = "commit"
         /\ UNCHANGED <<db, args, step, totalDeleted, result, thrown,
                        errClass, db0, dirtyAtFail, failedAt, lastFail>>

\* a final step on a store that does not enforce the references to User
UserDeleteUnchecked ==
  /\ pc = "userDelete"
  /\ UNCHANGED <<batchVars, httpVars, previewVars>>
  /\ \/ \E e \in StoreErrors : Fail(e, "userDelete")
     \/ LET rows == Matching(tx, "user", args.userId)
        IN  IF rows = {} THEN Fail(RecordNotFoundError, "userDelete")
            ELSE /\ tx' = Remove(tx, "user", rows)
                 /\ deletedCounts' = ("user" :> 1) @@ deletedCounts
                 /\ purged' = Append(purged, "user")
                 /\ pc' = "commit"
                 /\ UNCHANGED <<db, args, step, totalDeleted, result, thrown,
                                errClass, db0, dirtyAtFail, failedAt, lastFail>>

\* Step 3.11: tx.user.delete
UserDelete ==
  /\ pc = "userDelete"
  /\ UNCHANGED <<batchVars, httpVars, previewVars>>
  /\ \/ \E e \in StoreErrors : Fail(e, "userDelete")
     \/ LET rows == Matching(tx, "user", args.userId)
        IN  IF rows = {} THEN Fail(RecordNotFoundError, "userDelete")
            ELSE IF FkViolation(tx, "user", rows) THEN Fail(FkError, "userDelete")
            ELSE /\ tx' = Remove(tx, "user", rows)
                 /\ deletedCounts' = ("user" :> 1) @@ deletedCounts
                 /\ purged' = Append(purged, "user")
                 /\ pc' = "commit"
                 /\ UNCHANGED <<db, args, step, totalDeleted, result, thrown,
                                errClass, db0, dirtyAtFail, failedAt, lastFail>>

\* the callback returns: the transaction commits and the summary is returned
Commit ==
  /\ pc = "commit"
  /\ UNCHANGED <<batchVars, httpVars, previewVars>>
  /\ \/ \E e \in StoreErrors : Fail(e, "commit")
     \/ \E duration \in Times :
          /\ db' = tx
          /\ pc' = "done"
          /\ result' = [success |-> TRUE, deletedCounts |-> deletedCounts,
                        duration |-> duration]
          /\ UNCHANGED <<tx, args, step, totalDeleted, deletedCounts, thrown,
                         errClass, db0, purged, dirtyAtFail, failedAt, lastFail>>

\* the caller has received the result or the error
Return ==
  /\ pc \in {"done", "failed"}
  /\ UNCHANGED <<batchVars, httpVars, previewVars>>
  /\ pc' = "idle"
  /\ args' = NoArgs
  /\ step' = 0
  /\ totalDeleted' = 0
  /\ deletedCounts' = NoCounts
  /\ result' = None
  /\ thrown' = None
  /\ errClass' = "none"
  /\ purged' = << >>
  /\ dirtyAtFail' = FALSE
  /\ failedAt' = "none"
  /\ tx' = db
  /\ db0' = db
  /\ UNCHANGED <<db, lastFail>>

Next ==
  \/ \E u \in UserIds, soft \in BOOLEAN : Call(u, soft)
  \/ Validate
  \/ BeginTx
  \/ SoftDelete
  \/ DeleteManyCall
  \/ UserDelete
  \/ Commit
  \/ Return

Spec == Init /\ [][Next]_vars

(***************************************************************************)
(* Callers that remember the previous failure (to compare two failures)    *)
(***************************************************************************)
ReturnKeep ==
  /\ pc \in {"done", "failed"}
  /\ UNCHANGED <<batchVars, httpVars, previewVars>>
  /\ lastFail' = IF pc = "failed"
                 THEN [thrown |-> thrown, class |-> errClass]
                 ELSE lastFail
  /\ pc' = "idle"
  /\ args' = NoArgs
  /\ step' = 0
  /\ totalDeleted' = 0
  /\ deletedCounts' = NoCounts
  /\ result' = None
  /\ thrown' = None
  /\ errClass' = "none"
  /\ purged' = << >>
  /\ dirtyAtFail' = FALSE
  /\ failedAt' = "none"
  /\ tx' = db
  /\ db0' = db
  /\ UNCHANGED db

\* a store with an administrator and two ordinary users, no dependent rows:
\* the failures of a call do not depend on them
InitErrors ==
  /\ db = SeedStore({}, FALSE, "ADMIN", FALSE)
  /\ tx = db
  /\ db0 = db
  /\ IdleErase
  /\ IdleBatch
  /\ IdlePreview
  /\ IdleHttp

NextErrors ==
  \/ \E u \in UserIds, soft \in BOOLEAN : Call(u, soft)
  \/ Validate
  \/ BeginTx
  \/ SoftDelete
  \/ DeleteManyCall
  \/ UserDelete
  \/ Commit
  \/ ReturnKeep

SpecErrors == InitErrors /\ [][NextErrors]_vars

(***************************************************************************)
(* Callers that run the operation again after a failure                    *)
(***************************************************************************)
\* the caller has received the result or the error; after an error it keeps
\* the id it asked for, the class of the failure and the store it started on
ReturnRetry ==
  /\ pc \in {"done", "failed"}
  /\ UNCHANGED <<batchVars, httpVars, previewVars>>
  /\ lastFail' = IF pc = "failed"
                 THEN [userId |-> args.userId, class |-> errClass, before |-> db0]
                 ELSE None
  /\ pc' = "idle"
  /\ args' = NoArgs
  /\ step' = 0
  /\ totalDeleted' = 0
  /\ deletedCounts' = NoCounts
  /\ result' = None
  /\ thrown' = None
  /\ errClass' = "none"
  /\ purged' = << >>
  /\ dirtyAtFail' = FALSE
  /\ failedAt' = "none"
  /\ tx' = db
  /\ db0' = db
  /\ UNCHANGED db

\* a store with rows in every family, and one where other users engage with
\* the posts of a user
InitRetry ==
  /\ db \in {SeedStore(Clusters, FALSE, "USER", FALSE),
             SeedStore({"content"}, TRUE, "USER", FALSE)}
  /\ tx = db
  /\ db0 = db
  /\ IdleErase
  /\ IdleBatch
  /\ IdlePreview
  /\ IdleHttp

NextRetry ==
  \/ \E u \in UserIds, soft \in BOOLEAN : Call(u, soft)
  \/ Validate
  \/ BeginTx
  \/ SoftDelete
  \/ DeleteManyCall
  \/ UserDelete
  \/ Commit
  \/ ReturnRetry

SpecRetry == InitRetry /\ [][NextRetry]_vars

(***************************************************************************)
(* The delete-account HTTP handlers: DELETE /delete-account of the user    *)
(* module and DELETE /delete of the auth module                            *)
(***************************************************************************)
Routes == {"user", "auth"}

\* a caught value as the error handlers inspect it
CaughtStoreError(e) ==
  [name |-> CASE e.kind = "known" -> "PrismaClientKnownRequestError"
              [] e.kind = "error" -> "Error"
              [] OTHER -> "nonError",
   statusCode |-> 0, code |-> e.code, message |-> e.message]

\* the Error thrown by deleteUserAndData, as caught by a handler
CaughtThrown(t) ==
  [name |-> t.name, statusCode |-> 0, code |-> "none", message |-> t.message]

ZodError ==
  [name |-> "ZodError", statusCode |-> 0, code |-> "none", message |-> <<"invalid body">>]
UserNotFoundThrow ==
  [name |-> "object", statusCode |-> 404, code |-> "userNotFound",
   message |-> <<"User record not found.">>]
InvalidPasswordThrow ==
  [name |-> "object", statusCode |-> 401, code |-> "invalidPassword",
   message |-> <<"Invalid password.">>]
ClearCookieError ==
  [name |-> "Error", statusCode |-> 0, code |-> "none", message |-> <<"msgA">>]

\* err instanceof Error
IsError(err) == err.name \in {"Error", "PrismaClientKnownRequestError", "ZodError"}
\* message.includes(word), on a text given as a sequence of pieces
Includes(message, word) == \E i \in 1..Len(message) : message[i] = word

\* userErrorHandler: the status and error code it replies with
UserErrorReply(err) ==
  IF err.statusCode # 0
    THEN [status |-> err.statusCode, success |-> FALSE, code |-> err.code]
  ELSE IF err.name = "PrismaClientKnownRequestError" /\ err.code = "P2002"
    THEN [status |-> 409, success |-> FALSE, code |-> "conflictError"]
  ELSE IF err.name = "PrismaClientKnownRequestError" /\ err.code = "P2025"
    THEN [status |-> 404, success |-> FALSE, code |-> "notFoundError"]
  ELSE IF err.name = "ZodError"
    THEN [status |-> 400, success |-> FALSE, code |-> "validationError"]
  ELSE IF IsError(err) /\ Includes(err.message, "Unauthorized")
    THEN [status |-> 401, success |-> FALSE, code |-> "unauthorizedError"]
  ELSE IF IsError(err) /\ Includes(err.message, "upload")
    THEN [status |-> 400, success |-> FALSE, code |-> "uploadError"]
  ELSE [status |-> 500, success |-> FALSE, code |-> "internalServerError"]

\* authErrorHandler: the status and error code it replies with
AuthErrorReply(err) ==
  IF err.statusCode # 0
    THEN [status |-> err.statusCode, success |-> FALSE, code |-> err.code]
  ELSE IF err.name = "PrismaClientKnownRequestError" /\ err.code = "P2002"
    THEN [status |-> 409, success |-> FALSE, code |-> "conflictError"]
  ELSE IF err.name = "ZodError"
    THEN [status |-> 400, success |-> FALSE, code |-> "validationError"]
  ELSE [status |-> 500, success |-> FALSE, code |-> "internalServerError"]

ErrorReply(route, err) ==
  IF route = "user" THEN UserErrorReply(err) ELSE AuthErrorReply(err)

SuccessReply == [status |-> 200, success |-> TRUE, code |-> "none"]

\* an authenticated DELETE request for the requester's own id arrives
HttpReceive(route, userId) ==
  /\ http.stage \in {"idle", "responded"}
  /\ pc = "idle"
  /\ http' = [stage |-> IF route = "auth" THEN "check" ELSE "erase",
              route |-> route, userId |-> userId, cookieCleared |-> FALSE,
              response |-> None, outcome |-> "none"]
  /\ UNCHANGED <<eraseVars, batchVars, previewVars>>

\* auth route, before the erasure: body validation, user lookup and password
\* comparison; each failure goes to authErrorHandler
HttpAuthCheck ==
  /\ http.stage = "check"
  /\ UNCHANGED <<eraseVars, batchVars, previewVars>>
  /\ \/ http' = [http EXCEPT !.stage = "responded",
                             !.response = AuthErrorReply(ZodError)]
     \/ \E e \in StoreErrors :
          http' = [http EXCEPT !.stage = "responded",
                               !.response = AuthErrorReply(CaughtStoreError(e))]
     \/ IF Matching(db, "user", http.userId) = {}
        THEN http' = [http EXCEPT !.stage = "responded",
                                  !.response = AuthErrorReply(UserNotFoundThrow)]
        ELSE \E match \in BOOLEAN :
               http' = IF match
                       THEN [http EXCEPT !.stage = "erase"]
                       ELSE [http EXCEPT !.stage = "responded",
                                         !.response = AuthErrorReply(InvalidPasswordThrow)]

\* the handler calls deleteUserAndData(userId, true)
HttpCall ==
  /\ http.stage = "erase"
  /\ Call(http.userId, TRUE)

\* a handler that clears the cookie before it knows the outcome
HttpRepliesClearFirst(route, succeeded, err) ==
  IF ~succeeded
  THEN {<<TRUE, ErrorReply(route, err)>>}
  ELSE {<<TRUE, SuccessReply>>}

\* the reply of a handler once deleteUserAndData has returned or thrown:
\* (cookie cleared, response)
HttpReplies(route, succeeded, err) ==
  IF ~succeeded
  THEN {<<FALSE, ErrorReply(route, err)>>}
  ELSE IF route = "user"
       THEN {<<TRUE, SuccessReply>>, <<FALSE, SuccessReply>>}
       ELSE {<<TRUE, SuccessReply>>, <<FALSE, AuthErrorReply(ClearCookieError)>>}

\* the handler replies: on success it clears the 'token' cookie and sends
\* the summary, on an error it hands the error to its error handler
HttpRespond ==
  /\ http.stage = "erase"
  /\ pc \in {"done", "failed"}
  /\ \E r \in HttpReplies(http.route, pc = "done",
                          IF pc = "failed" THEN CaughtThrown(thrown)
                                           ELSE ClearCookieError) :
       http' = [http EXCEPT !.stage = "responded",
                            !.cookieCleared = r[1],
                            !.response = r[2],
                            !.outcome = IF pc = "done" THEN "success" ELSE errClass]
  /\ pc' = "idle"
  /\ args' = NoArgs
  /\ step' = 0
  /\ totalDeleted' = 0
  /\ deletedCounts' = NoCounts
  /\ result' = None
  /\ thrown' = None
  /\ errClass' = "none"
  /\ purged' = << >>
  /\ dirtyAtFail' = FALSE
  /\ failedAt' = "none"
  /\ tx' = db
  /\ db0' = db
  /\ UNCHANGED <<db, lastFail, batchVars, previewVars>>

\* a store with an administrator and two ordinary users, and a store whose
\* users have sessions, settings and other account rows
InitHttp ==
  /\ db \in {SeedStore({}, FALSE, "ADMIN", FALSE),
             SeedStore({"account"}, FALSE, "USER", FALSE)}
  /\ tx = db
  /\ db0 = db
  /\ IdleErase
  /\ IdleBatch
  /\ IdlePreview
  /\ IdleHttp

NextHttp ==
  \/ \E route \in Routes, u \in UserIds : HttpReceive(route, u)
  \/ HttpAuthCheck
  \/ HttpCall
  \/ Validate
  \/ BeginTx
  \/ SoftDelete
  \/ DeleteManyCall
  \/ UserDelete
  \/ Commit
  \/ HttpRespond

SpecHttp == InitHttp /\ [][NextHttp]_vars

(***************************************************************************)
(* A second deleteUserAndData call for the same user, running concurrently *)
(* in a transaction of its own.  The store isolates transactions by row    *)
(* locks and lets each statement read what is committed: the other call    *)
(* can commit while this one has written nothing (it would otherwise wait  *)
(* for this one's row locks), and this call's later statements then find   *)
(* the committed store.                                                    *)
(***************************************************************************)
\* the store after the purges of the first i families of the cascade for u
RECURSIVE PurgedUpTo(_, _, _)
PurgedUpTo(store, u, i) ==
  IF i = 0 THEN store
  ELSE LET s == PurgedUpTo(store, u, i - 1)
       IN  Remove(s, ModelAt(i), Matching(s, ModelAt(i), u))

\* every child row of the store references an existing parent row
Integrity(store) ==
  \A fk \in ForeignKeys : \A r \in store[fk[1]] :
     \E p \in store[fk[3]] : r[fk[2]] = p.id

\* the store a successful erasure of u leaves
ErasedStore(store, u) ==
  LET s == PurgedUpTo(store, u, NumFamilies)
  IN  Remove(s, "user", Matching(s, "user", u))

\* the concurrent call for the same id, which passed its own preflight on
\* the same store, runs its cascade and commits
RivalCommit ==
  /\ pc \in {"begin", "softDelete", "purge", "userDelete"}
  /\ tx = db
  /\ ValidationError(db, args.userId) = None
  /\ Integrity(ErasedStore(db, args.userId))
  /\ db' = ErasedStore(db, args.userId)
  /\ tx' = db'
  /\ UNCHANGED <<pc, args, step, totalDeleted, deletedCounts, result, thrown,
                 errClass, db0, purged, dirtyAtFail, failedAt, lastFail,
                 batchVars, httpVars, previewVars>>

\* a store without dependent rows and a store with rows in every family
InitRace ==
  /\ db \in {SeedStore({}, FALSE, "USER", FALSE),
             SeedStore(Clusters, FALSE, "USER", FALSE)}
  /\ tx = db
  /\ db0 = db
  /\ IdleErase
  /\ IdleBatch
  /\ IdlePreview
  /\ IdleHttp

NextRace ==
  \/ \E u \in UserIds, soft \in BOOLEAN : Call(u, soft)
  \/ Validate
  \/ BeginTx
  \/ SoftDelete
  \/ DeleteManyCall
  \/ UserDelete
  \/ Commit
  \/ Return
  \/ RivalCommit

SpecRace == InitRace /\ [][NextRace]_vars

(***************************************************************************)
(* Other requests that insert rows owned by the user being erased          *)
(***************************************************************************)
\* at most this many rows written by other requests while an erasure runs
\* are in the store at once
MaxInserts == 1

\* the activity-log entries the routes have written
LoggedRows(store) == {r \in store["userActivityLog"] : r.n <= 0}

\* the activity-log entry a request of user u writes next
LogRow(store, u) ==
  [userId |-> u,
   n |-> 0 - Cardinality({r \in LoggedRows(store) : r.userId = u})]

\* likePostRoute may pass its checks: the post exists and the user has no
\* like on it that is not removed
CanLike(store, u, postId) ==
  /\ RowsById(store, "post", postId) # {}
  /\ \A l \in store["like"] :
        (l.userId = u /\ l.postId = postId) => l.isRemoved

\* the writes of likePostRoute's transaction, as the given store sees them:
\* the user's old like row on the post goes, a new one is created, the
\* post's likesCount is incremented and the activity is logged
Liked(store, u, postId, log) ==
  [store EXCEPT
     !["like"] = {l \in @ : ~(l.userId = u /\ l.postId = postId)}
                   \cup {[userId |-> u, postId |-> postId, isRemoved |-> FALSE]},
     !["post"] = {IF q.id = postId THEN [q EXCEPT !.likesCount = @ + 1] ELSE q :
                    q \in @},
     !["userActivityLog"] = @ \cup {log}]

\* the user being erased likes a post while the cascade runs, after the
\* cascade has purged the likes; the request commits, and the later
\* statements of the erasure see its rows
RivalLike(postId) ==
  /\ pc \in {"purge", "userDelete"}
  /\ \E i \in 1..Len(purged) : purged[i] = "like"
  /\ Matching(db, "user", args.userId) # {}
  /\ Cardinality(LoggedRows(db)) < MaxInserts
  /\ RowsById(tx, "post", postId) # {}
  /\ \A l \in db["like"] : ~(l.userId = args.userId /\ l.postId = postId)
  /\ db' = Liked(db, args.userId, postId, LogRow(db, args.userId))
  /\ tx' = Liked(tx, args.userId, postId, LogRow(db, args.userId))
  /\ UNCHANGED <<pc, args, step, totalDeleted, deletedCounts, result, thrown,
                 errClass, db0, purged, dirtyAtFail, failedAt, lastFail,
                 batchVars, httpVars, previewVars>>

\* three ordinary users with posts, comments and likes of their own
InitInsert ==
  /\ db = SeedStore({"content"}, FALSE, "USER", FALSE)
  /\ tx = db
  /\ db0 = db
  /\ IdleErase
  /\ IdleBatch
  /\ IdlePreview
  /\ IdleHttp

NextInsert ==
  \/ \E u \in UserIds, soft \in BOOLEAN : Call(u, soft)
  \/ Validate
  \/ BeginTx
  \/ SoftDelete
  \/ DeleteManyCall
  \/ UserDelete
  \/ Commit
  \/ Return
  \/ \E p \in PostRows : RivalLike(p.id)

SpecInsert == InitInsert /\ [][NextInsert]_vars

(***************************************************************************)
(* The like and unlike routes between erasures                             *)
(***************************************************************************)
\* at most this many activity-log entries of the routes are in the store
MaxLogs == 2

\* POST /like/:postId by user u, no erasure running
LikePost(u, postId) ==
  /\ pc = "idle"
  /\ Matching(db, "user", u) # {}
  /\ Cardinality(LoggedRows(db)) < MaxLogs
  /\ CanLike(db, u, postId)
  /\ db' = Liked(db, u, postId, LogRow(db, u))
  /\ tx' = db'
  /\ UNCHANGED <<pc, args, step, totalDeleted, deletedCounts, result, thrown,
                 errClass, db0, purged, dirtyAtFail, failedAt, lastFail,
                 batchVars, httpVars, previewVars>>

\* POST /unlike/:postId by user u, no erasure running: the like is marked
\* removed, the post's likesCount is decremented and the activity is logged
UnlikePost(u, postId) ==
  /\ pc = "idle"
  /\ Matching(db, "user", u) # {}
  /\ Cardinality(LoggedRows(db)) < MaxLogs
  /\ RowsById(db, "post", postId) # {}
  /\ \E existingLike \in db["like"] :
       /\ existingLike.userId = u
       /\ existingLike.postId = postId
       /\ ~existingLike.isRemoved
       /\ db' = [db EXCEPT
                   !["like"] = (@ \ {existingLike})
                                 \cup {[existingLike EXCEPT !.isRemoved = TRUE]},
                   !["post"] = {IF q.id = postId
                                THEN [q EXCEPT !.likesCount = @ - 1] ELSE q :
                                  q \in @},
                   !["userActivityLog"] = @ \cup {LogRow(db, u)}]
  /\ tx' = db'
  /\ UNCHANGED <<pc, args, step, totalDeleted, deletedCounts, result, thrown,
                 errClass, db0, purged, dirtyAtFail, failedAt, lastFail,
                 batchVars, httpVars, previewVars>>

\* three ordinary users, each with a post that its author likes
InitLikes ==
  /\ db = SeedStore({"content"}, FALSE, "USER", FALSE)
  /\ tx = db
  /\ db0 = db
  /\ IdleErase
  /\ IdleBatch
  /\ IdlePreview
  /\ IdleHttp

NextLikes ==
  \/ \E u \in UserIds, soft \in BOOLEAN : Call(u, soft)
  \/ Validate
  \/ BeginTx
  \/ SoftDelete
  \/ DeleteManyCall
  \/ UserDelete
  \/ Commit
  \/ Return
  \/ \E u \in Users, p \in PostRows : LikePost(u, p.id)
  \/ \E u \in Users, p \in PostRows : UnlikePost(u, p.id)

SpecLikes == InitLikes /\ [][NextLikes]_vars

(***************************************************************************)
(* softDeleteUserOnly, called by other requests while erasures run         *)
(***************************************************************************)
\* softDeleteUserOnly(userId) on the global client: one update, committed at
\* once; a missing row or a uniqueness conflict makes it rethrow and leaves
\* the store as it was
SoftDeleteUserOnly(userId) ==
  /\ pc \in {"idle", "validate", "begin", "softDelete"}
  /\ tx = db
  /\ Matching(db, "user", userId) # {}
  /\ \E t1 \in Times : \E t2 \in t1..MaxTime :
       /\ ~UniqueConflict(db, userId, t1, t2)
       /\ db' = UpdateUser(db, userId, t1, t2)
  /\ tx' = db'
  /\ UNCHANGED <<pc, args, step, totalDeleted, deletedCounts, result, thrown,
                 errClass, db0, purged, dirtyAtFail, failedAt, lastFail,
                 batchVars, httpVars, previewVars>>

\* three ordinary users; dependent rows play no part in the soft delete
InitSoft ==
  /\ db = SeedStore({}, FALSE, "USER", FALSE)
  /\ tx = db
  /\ db0 = db
  /\ IdleErase
  /\ IdleBatch
  /\ IdlePreview
  /\ IdleHttp

NextSoft ==
  \/ \E u \in UserIds, soft \in BOOLEAN : Call(u, soft)
  \/ Validate
  \/ BeginTx
  \/ SoftDelete
  \/ DeleteManyCall
  \/ UserDelete
  \/ Commit
  \/ Return
  \/ \E u \in Users : SoftDeleteUserOnly(u)

SpecSoft == InitSoft /\ [][NextSoft]_vars

(***************************************************************************)
(* A concurrent request that grants a user the ADMIN role while a          *)
(* deleteUserAndData call is between its preflight and its transaction     *)
(***************************************************************************)
\* the user's UserRole row becomes ADMIN (committed at once)
GrantAdmin(userId) ==
  /\ pc \in {"validate", "begin"}
  /\ Matching(db, "user", userId) # {}
  /\ RoleOf(db, userId) # "ADMIN"
  /\ db' = [db EXCEPT !["userRole"] =
              {r \in @ : r.userId # userId}
                \cup {[userId |-> userId, role |-> "ADMIN"]}]
  /\ tx' = db'
  /\ UNCHANGED <<pc, args, step, totalDeleted, deletedCounts, result, thrown,
                 errClass, db0, purged, dirtyAtFail, failedAt, lastFail,
                 batchVars, httpVars, previewVars>>

\* three ordinary users, with and without account rows
InitGrant ==
  /\ db \in {SeedStore({}, FALSE, "USER", FALSE),
             SeedStore({"account"}, FALSE, "none", FALSE)}
  /\ tx = db
  /\ db0 = db
  /\ IdleErase
  /\ IdleBatch
  /\ IdlePreview
  /\ IdleHttp

NextGrant ==
  \/ \E u \in UserIds, soft \in BOOLEAN : Call(u, soft)
  \/ Validate
  \/ BeginTx
  \/ SoftDelete
  \/ DeleteManyCall
  \/ UserDelete
  \/ Commit
  \/ Return
  \/ \E u \in Users : GrantAdmin(u)

SpecGrant == InitGrant /\ [][NextGrant]_vars

(***************************************************************************)
(* deleteInBatches run on its own, on a family with bN matching rows       *)
(***************************************************************************)
BatchSizes == (1..MaxBatch) \cup {BATCH_SIZE}
\* delete calls explored in one run of the purger; a run with a batch size
\* of at least 1 never gets there
MaxCalls == MaxN + 2
RowCounts(b) ==
  (0..MaxN) \cup
  (IF b = BATCH_SIZE
   THEN {b - 1, b, b + 1, 2 * b, 2 * b + (b \div 2), 3 * b}
   ELSE {})

InitBatch ==
  /\ db = SeedStore({}, FALSE, "USER", FALSE)
  /\ tx = db
  /\ db0 = db
  /\ IdleErase
  /\ IdlePreview
  /\ IdleHttp
  /\ \E b \in BatchSizes : \E n \in RowCounts(b) :
       /\ bSize = b
       /\ bN = n
       /\ bRows = n
  /\ bpc = "loop"
  /\ bTotal = 0
  /\ bCalls = << >>
  /\ bPauses = 0

\* an iteration that pauses after every delete call, the last one included
BatchDeleteManyAlwaysPauses ==
  /\ bpc = "loop"
  /\ Len(bCalls) < MaxCalls
  /\ UNCHANGED <<eraseVars, previewVars, httpVars, bN, bSize>>
  /\ LET count == DeleteManyCount(bRows, bSize)
     IN  /\ bRows' = bRows - count
         /\ bTotal' = AddCount(bTotal, count)
         /\ bCalls' = Append(bCalls, count)
         /\ bPauses' = bPauses + 1
         /\ bpc' = IF ShouldContinue(count, bSize) THEN "loop" ELSE "returned"

\* one iteration of the while loop: a deleteMany call that returns
BatchDeleteMany ==
  /\ bpc = "loop"
  /\ Len(bCalls) < MaxCalls
  /\ UNCHANGED <<eraseVars, previewVars, httpVars, bN, bSize>>
  /\ LET count == DeleteManyCount(bRows, bSize)
     IN  /\ bRows' = bRows - count
         /\ bTotal' = AddCount(bTotal, count)
         /\ bCalls' = Append(bCalls, count)
         /\ IF ShouldContinue(count, bSize)
            THEN bPauses' = bPauses + 1 /\ bpc' = "loop"
            ELSE bPauses' = bPauses /\ bpc' = "returned"

\* one iteration of the while loop: the deleteMany call throws, the catch
\* block logs and rethrows
BatchDeleteFails ==
  /\ bpc = "loop"
  /\ bpc' = "threw"
  /\ UNCHANGED <<eraseVars, previewVars, httpVars, bN, bRows, bSize, bTotal, bCalls, bPauses>>

NextBatch ==
  \/ BatchDeleteMany
  \/ BatchDeleteFails

SpecBatch == InitBatch /\ [][NextBatch]_vars

\* deleteInBatches with any batch size its signature accepts from zero on;
\* a delete call that is issued returns or throws
InitBatchAny ==
  /\ db = SeedStore({}, FALSE, "USER", FALSE)
  /\ tx = db
  /\ db0 = db
  /\ IdleErase
  /\ IdlePreview
  /\ IdleHttp
  /\ \E b \in BatchSizes \cup {0} : \E n \in (IF b = 0 THEN 0..MaxN ELSE RowCounts(b)) :
       /\ bSize = b
       /\ bN = n
       /\ bRows = n
  /\ bpc = "loop"
  /\ bTotal = 0
  /\ bCalls = << >>
  /\ bPauses = 0

SpecBatchAny == InitBatchAny /\ [][NextBatch]_vars /\ WF_vars(BatchDeleteMany)

(***************************************************************************)
(* previewUserDeletion                                                     *)
(***************************************************************************)
\* the count queries of previewUserDeletion in order: (counts key, model)
PreviewOrder ==
  << <<"user", "user">>,
     <<"posts", "post">>,
     <<"comments", "comment">>,
     <<"likes", "like">>,
     <<"savedPosts", "savedPost">>,
     <<"follows", "follow">>,
     <<"followRequests", "followRequest">>,
     <<"stories", "story">>,
     <<"conversations", "conversation">>,
     <<"messages", "message">>,
     <<"notifications", "notification">> >>

NumPreview == Len(PreviewOrder)
PreviewKeys == {PreviewOrder[i][1] : i \in 1..NumPreview}

\* count queries that follow one side of each two-sided relation only
PreviewWhereOneSided(model, userId, row) ==
  CASE model = "user" -> row.id = userId
    [] model \in {"post", "comment"} -> row.authorId = userId
    [] model \in {"like", "savedPost", "story"} -> row.userId = userId
    [] model = "follow" -> row.followerId = userId
    [] model = "followRequest" -> row.senderId = userId
    [] model = "conversation" -> row.user1Id = userId
    [] model = "message" -> row.senderId = userId
    [] model = "notification" -> row.userId = userId

\* the where-condition of each count query
PreviewWhere(model, userId, row) ==
  CASE model = "user" -> row.id = userId
    [] model \in {"post", "comment"} -> row.authorId = userId
    [] model \in {"like", "savedPost", "story"} -> row.userId = userId
    [] model = "follow" -> row.followerId = userId \/ row.followingId = userId
    [] model = "followRequest" -> row.senderId = userId \/ row.receiverId = userId
    [] model = "conversation" -> row.user1Id = userId \/ row.user2Id = userId
    [] model = "message" -> row.senderId = userId \/ row.recipientId = userId
    [] model = "notification" -> row.userId = userId \/ row.actorId = userId

PreviewCountOf(store, model, userId) ==
  Cardinality({r \in store[model] : PreviewWhere(model, userId, r)})

InitPreview ==
  /\ db \in Seeds
  /\ tx = db
  /\ db0 = db
  /\ IdleErase
  /\ IdleBatch
  /\ IdlePreview
  /\ IdleHttp

\* a caller invokes previewUserDeletion(userId)
PreviewCall(userId) ==
  /\ pv.status = "none"
  /\ pv' = [status |-> "running", userId |-> userId, counts |-> NoCounts,
            idx |-> 1, failedKey |-> "none"]
  /\ UNCHANGED <<eraseVars, batchVars, httpVars, pvPrev>>

\* a count query that consumes the rows it counts
PreviewCountConsuming ==
  /\ pv.status = "running"
  /\ pv' = [pv EXCEPT
              !.counts = (PreviewOrder[pv.idx][1] :>
                            PreviewCountOf(db, PreviewOrder[pv.idx][2], pv.userId)) @@ @,
              !.idx = IF pv.idx < NumPreview THEN pv.idx + 1 ELSE pv.idx,
              !.status = IF pv.idx < NumPreview THEN "running" ELSE "ok"]
  /\ db' = [db EXCEPT ![PreviewOrder[pv.idx][2]] =
               {r \in @ : ~PreviewWhere(PreviewOrder[pv.idx][2], pv.userId, r)}]
  /\ UNCHANGED <<tx, pc, args, step, totalDeleted, deletedCounts, result,
                 thrown, errClass, db0, purged, dirtyAtFail, failedAt, lastFail,
                 batchVars, httpVars, pvPrev>>

\* the next count query succeeds; after the last one the counts are returned
PreviewCount ==
  /\ pv.status = "running"
  /\ pv' = [pv EXCEPT
              !.counts = (PreviewOrder[pv.idx][1] :>
                            PreviewCountOf(db, PreviewOrder[pv.idx][2], pv.userId)) @@ @,
              !.idx = IF pv.idx < NumPreview THEN pv.idx + 1 ELSE pv.idx,
              !.status = IF pv.idx < NumPreview THEN "running" ELSE "ok"]
  /\ UNCHANGED <<eraseVars, batchVars, httpVars, pvPrev>>

\* the next count query throws: the catch block logs and rethrows, the
\* counts gathered so far are lost with the call
PreviewCountFails ==
  /\ pv.status = "running"
  /\ pv' = [pv EXCEPT !.status = "error", !.counts = NoCounts,
                      !.failedKey = PreviewOrder[pv.idx][1]]
  /\ UNCHANGED <<eraseVars, batchVars, httpVars, pvPrev>>

\* the caller has received the counts or the error
PreviewReturn ==
  /\ pv.status \in {"ok", "error"}
  /\ pvPrev' = IF pv.status = "ok"
               THEN [userId |-> pv.userId, counts |-> pv.counts]
               ELSE pvPrev
  /\ pv' = NoPreview
  /\ UNCHANGED <<eraseVars, batchVars, httpVars>>

NextPreview ==
  \/ \E u \in UserIds : PreviewCall(u)
  \/ PreviewCount
  \/ PreviewCountFails
  \/ PreviewReturn

SpecPreview == InitPreview /\ [][NextPreview]_vars

(***************************************************************************)
(* A caller that previews a user and then erases that user                 *)
(***************************************************************************)
\* previewUserDeletion(userId) is called while no erasure runs
PreviewIdle(userId) ==
  /\ pc = "idle"
  /\ PreviewCall(userId)

\* deleteUserAndData is called for the user of the last preview returned
CallPreviewed(enableSoftDelete) ==
  /\ pv = NoPreview
  /\ pvPrev # None
  /\ Call(pvPrev.userId, enableSoftDelete)

\* a store with rows in every family and a store with posts and likes only
InitPreviewErase ==
  /\ db \in {SeedStore(Clusters, FALSE, "USER", FALSE),
             SeedStore({"content"}, FALSE, "USER", FALSE)}
  /\ tx = db
  /\ db0 = db
  /\ IdleErase
  /\ IdleBatch
  /\ IdlePreview
  /\ IdleHttp

NextPreviewErase ==
  \/ \E u \in UserIds : PreviewIdle(u)
  \/ PreviewCount
  \/ PreviewCountFails
  \/ PreviewReturn
  \/ \E soft \in BOOLEAN : CallPreviewed(soft)
  \/ Validate
  \/ BeginTx
  \/ SoftDelete
  \/ DeleteManyCall
  \/ UserDelete
  \/ Commit
  \/ Return

SpecPreviewErase == InitPreviewErase /\ [][NextPreviewErase]_vars

(***************************************************************************)
(* Properties                                                              *)
(***************************************************************************)
Range(seq) == {seq[i] : i \in 1..Len(seq)}
Target == args.userId

\* C1 (referential closure): once deleteUserAndData(u) has returned success,
\* the User row u is absent from the committed store, no row of any dependent
\* family references u through any of its user fields, and no child row
\* references a parent row (story, comment, post, conversation) that this
\* erasure removed.
ReferentialClosure ==
  pc = "done" =>
    /\ Matching(db, "user", Target) = {}
    /\ \A fk \in UserRelations : \A r \in db[fk[1]] : r[fk[2]] # Target
    /\ \A fk \in ParentRelations : \A r \in db[fk[1]] :
         ~References(r, fk[2], db0[fk[3]] \ db[fk[3]])

\* a successful erasure of a user who had rows in every family, among them
\* comment likes and story views that other users held on the user's content
ReferentialClosureWitness ==
  /\ pc = "done"
  /\ \A f \in Families : Matching(db0, f, Target) # {}
  /\ \E r \in db0["commentLike"] :
       /\ r.userId # Target
       /\ \E c \in RowsById(db0, "comment", r.commentId) : c.authorId = Target
  /\ \E r \in db0["storyView"] :
       /\ r.viewerId # Target
       /\ \E st \in RowsById(db0, "story", r.storyId) : st.userId = Target

\* C2 (atomicity under failure): until a call commits, the committed store is
\* the store the call started from, and once a call has raised its error the
\* store, the User row included, equals the store before the call - also when
\* earlier families had already been purged inside the transaction.
AtomicityUnderFailure ==
  /\ pc # "done" => db = db0
  /\ pc = "failed" => tx = db0 /\ result = None

\* the steps inside the transaction at which a run can fail
TxSteps == {"softDelete", "purge", "userDelete", "commit"}

\* a run that failed inside the transaction after rows of some family had
\* already been purged
AtomicityWitness ==
  /\ pc = "failed"
  /\ failedAt \in TxSteps
  /\ dirtyAtFail
  /\ \E f \in Families : Matching(db, f, Target) # {}

\* a family's purge, or the deletion of the User row, has begun
Started(t) ==
  \/ t \in Range(purged)
  \/ pc = "purge" /\ ModelAt(step) = t
  \/ pc = "userDelete" /\ t = "user"

\* the orderings the cascade documents, (earlier, later)
OrderPairs ==
  { <<"storyView", "story">>, <<"storyLike", "story">>,
    <<"storyHighlight", "story">>, <<"commentLike", "comment">>,
    <<"commentAuthorInfo", "comment">>, <<"comment", "postTag">>,
    <<"postTag", "post">>, <<"message", "conversation">>,
    <<"followRequest", "user">>, <<"follow", "user">> }

\* C3 (topological purge order): a family's purge begins only after every
\* family holding a foreign key into it has been purged, the documented
\* pairs (story views, likes and highlights before stories, ... follow
\* requests and follows before the User row) included, and at no point
\* inside the transaction does a child row reference a deleted parent row.
TopologicalPurgeOrder ==
  /\ \A fk \in ForeignKeys : Started(fk[3]) => fk[1] \in Range(purged)
  /\ \A pr \in OrderPairs : Started(pr[2]) => pr[1] \in Range(purged)
  /\ Integrity(tx)

\* the run is deleting posts of a user who had a comment with a comment like
\* on an own post with a tag
TopologicalPurgeOrderWitness ==
  /\ pc = "purge"
  /\ ModelAt(step) = "post"
  /\ Matching(tx, "post", Target) # {}
  /\ \E c \in db0["comment"] :
       /\ c.authorId = Target
       /\ \E p \in RowsById(db0, "post", c.postId) : p.authorId = Target
       /\ \E l \in db0["commentLike"] : l.commentId = c.id
       /\ \E t \in db0["postTag"] : t.postId = c.postId

\* C4 (batch counting): deleteInBatches on n matching rows with batch size
\* b >= 1 returns n, leaves no matching row and has issued floor(n/b)+1
\* delete calls, none removing more than b rows; 2500 rows with b = 1000 are
\* removed by three calls of 1000, 1000 and 500.
BatchCounting ==
  bpc = "returned" =>
    /\ bTotal = bN
    /\ bRows = 0
    /\ Len(bCalls) = (bN \div bSize) + 1
    /\ \A i \in 1..Len(bCalls) : bCalls[i] <= bSize
    /\ (bN = 2500 /\ bSize = 1000) => bCalls = <<1000, 1000, 500>>

BatchCountingWitness ==
  /\ bpc = "returned"
  /\ bN = 2500
  /\ bSize = BATCH_SIZE
  /\ Len(bCalls) = 3

\* the call in progress targets an existing user whose role is ADMIN
AdminTarget ==
  /\ pc # "idle"
  /\ Matching(db0, "user", Target) # {}
  /\ RoleOf(db0, Target) = "ADMIN"

\* C5 (protected account): a call on an ADMIN user never gets past preflight,
\* never opens the transaction and writes nothing; unless the user lookup
\* itself raised a data-store error, it fails with the ProtectedAccount error.
ProtectedAccountRejection ==
  AdminTarget =>
    /\ pc \in {"validate", "failed"}
    /\ failedAt \in {"none", "lookup", "preflight"}
    /\ db = db0 /\ tx = db0
    /\ (pc = "failed" /\ failedAt = "preflight") =>
         /\ errClass = "ProtectedAccount"
         /\ thrown = WrapError(AdminError, Target)

ProtectedAccountWitness ==
  /\ AdminTarget
  /\ pc = "failed"
  /\ errClass = "ProtectedAccount"

\* the call in progress targets an id without a User row
MissingTarget ==
  /\ pc # "idle"
  /\ Matching(db0, "user", Target) = {}

\* C6 (not found): a call with an id that has no User row fails in preflight
\* with the NotFound error (unless the lookup itself raised a data-store
\* error), before any transaction is opened; preflight changes no table.
NotFoundRejection ==
  /\ MissingTarget =>
       /\ pc \in {"validate", "failed"}
       /\ failedAt \in {"none", "lookup", "preflight"}
       /\ db = db0 /\ tx = db0
       /\ (pc = "failed" /\ failedAt = "preflight") =>
            /\ errClass = "NotFound"
            /\ thrown = WrapError(NotFoundError(Target), Target)
  /\ pc \in {"validate", "begin"} => db = db0 /\ tx = db0

\* a NotFound failure in a store that holds rows in every family
NotFoundWitness ==
  /\ MissingTarget
  /\ pc = "failed"
  /\ errClass = "NotFound"
  /\ \A f \in Families : db[f] # {}

\* C7 (classified errors): two failures of different taxonomy classes reach
\* the caller as different errors.
ClassifiedErrors ==
  (pc = "failed" /\ lastFail # None /\ lastFail.class # errClass)
    => lastFail.thrown # thrown

\* C8 (success result): a successful call returns success = true, a
\* non-negative duration, and deletedCounts with exactly one entry per purged
\* family plus user = 1, each family's entry being the number of rows of that
\* family the run removed from the store.
SuccessResult ==
  pc = "done" =>
    /\ result.success = TRUE
    /\ result.duration \in Nat
    /\ DOMAIN result.deletedCounts = CountKeys \cup {"user"}
    /\ result.deletedCounts["user"] = 1
    /\ Cardinality(db0["user"] \ db["user"]) = 1
    /\ \A i \in 1..NumFamilies :
         result.deletedCounts[KeyAt(i)] =
           Cardinality(db0[ModelAt(i)] \ db[ModelAt(i)])

\* a successful erasure that removed rows of every family
SuccessResultWitness ==
  /\ pc = "done"
  /\ \A i \in 1..NumFamilies : result.deletedCounts[KeyAt(i)] > 0

\* C9 (preview independence): when one count query fails, the call does not
\* fail as a whole and returns the correct counts of all other families.
PreviewIndependence ==
  pv.failedKey # "none" =>
    /\ pv.status # "error"
    /\ \A i \in 1..NumPreview :
         PreviewOrder[i][1] # pv.failedKey =>
           /\ PreviewOrder[i][1] \in DOMAIN pv.counts
           /\ pv.counts[PreviewOrder[i][1]] =
                Cardinality(Matching(db, PreviewOrder[i][2], pv.userId))

\* C10 (preview is read-only and repeatable): previewUserDeletion changes no
\* row of any table, and a preview returns the same counts as the preview
\* for the same user that returned before it.
PreviewReadOnlyRepeatable ==
  /\ db = db0 /\ tx = db0
  /\ (pv.status = "ok" /\ pvPrev # None /\ pvPrev.userId = pv.userId)
       => pv.counts = pvPrev.counts

\* a second preview of a user who owns posts and follow edges
PreviewRepeatWitness ==
  /\ pv.status = "ok"
  /\ pvPrev # None
  /\ pvPrev.userId = pv.userId
  /\ pv.counts["user"] = 1
  /\ pv.counts["posts"] > 0
  /\ pv.counts["follows"] > 0

\* what a reader on another connection finds for a user: the User row and the
\* rows of every family that the erasure of that user addresses
ReaderView(store, u) == [t \in Tables |-> Matching(store, t, u)]

\* C11 (no partial visibility): while an erasure of user u runs, a reader on
\* a separate connection finds for u either everything that was there before
\* the call (User row with its original email and username, all dependent
\* rows) or, once the call has committed, nothing at all.
NoPartialVisibility ==
  pc # "idle" =>
    \/ ReaderView(db, Target) = ReaderView(db0, Target)
    \/ pc = "done" /\ \A t \in Tables : ReaderView(db, Target)[t] = {}

\* the transaction holds the soft-delete placeholders and has emptied some
\* families of the user while other families are still to be purged
NoPartialVisibilityWitness ==
  /\ pc = "purge"
  /\ args.enableSoftDelete
  /\ Matching(tx, "user", Target) # Matching(db, "user", Target)
  /\ \E f \in Families : Matching(tx, f, Target) = {} /\ Matching(db, f, Target) # {}
  /\ \E f \in Families : Matching(tx, f, Target) # {}

\* the field naming the owner of a parent row
OwnerField(table) == IF table = "story" THEN "userId" ELSE "authorId"

\* user u is an owner or endpoint of the row, or owns the story, comment or
\* post the row hangs on
Involves(store, table, row, u) ==
  \/ table = "user" /\ row.id = u
  \/ \E fk \in UserRelations : fk[1] = table /\ row[fk[2]] = u
  \/ \E fk \in ParentRelations :
       /\ fk[1] = table
       /\ fk[3] \in {"story", "comment", "post"}
       /\ \E p \in RowsById(store, fk[3], row[fk[2]]) : p[OwnerField(fk[3])] = u

\* C12 (frame of an erasure): deleteUserAndData(u) adds no row and removes
\* no row that involves only other users; such rows are present unchanged
\* inside the transaction and in the committed store during the call and
\* after it, whether it succeeded or failed.
ErasureFrame ==
  pc # "idle" =>
    \A t \in Tables :
      /\ db[t] \subseteq db0[t]
      /\ tx[t] \subseteq db0[t] \/ t = "user"
      /\ \A row \in db0[t] :
           ~Involves(db0, t, row, Target) => row \in db[t] /\ row \in tx[t]

\* a successful erasure in a store where other users had follow edges,
\* messages, posts, comments and sessions among themselves
ErasureFrameWitness ==
  /\ pc = "done"
  /\ db # db0
  /\ \A t \in {"follow", "conversation", "message", "post", "comment", "session"} :
       \E row \in db0[t] : ~Involves(db0, t, row, Target)

\* the deletedCounts a successful run on the given store returns
FirstRunCounts(store, u) ==
  [k \in CountKeys \cup {"user"} |->
     IF k = "user" THEN 1
     ELSE LET i == CHOOSE j \in 1..NumFamilies : KeyAt(j) = k
          IN  Cardinality(Matching(PurgedUpTo(store, u, i - 1), ModelAt(i), u))]

\* C13 (retry after rollback): a failed call leaves the store as it was
\* before the call, so the call that follows it starts on that very store,
\* and when that call is a retry for the same user and succeeds it returns
\* the deletedCounts of a first run on that store.
RetryAfterRollback ==
  /\ pc = "failed" => db = db0 /\ tx = db0
  /\ (pc # "idle" /\ lastFail # None) => db0 = lastFail.before
  /\ (pc = "done" /\ lastFail # None /\ lastFail.userId = Target) =>
       result.deletedCounts = FirstRunCounts(lastFail.before, Target)

\* a retry that succeeded, and removed rows, after the first call had failed
\* on a transaction conflict
RetryAfterRollbackWitness ==
  /\ pc = "done"
  /\ lastFail # None
  /\ lastFail.userId = Target
  /\ lastFail.class = "TransactionConflict"
  /\ result.deletedCounts["posts"] > 0
  /\ result.deletedCounts["messages"] > 0

\* a reply has been sent for a request whose erasure failed with this class
RepliedAfter(class) ==
  /\ http.stage = "responded"
  /\ http.route = "user"
  /\ http.outcome = class

\* C14 (HTTP error mapping): the delete-account handler answers a NotFound
\* failure of deleteUserAndData with 404, a ProtectedAccount failure with a
\* 4xx status, and every other failure with the generic 500 reply.
HttpErrorMapping ==
  /\ RepliedAfter("NotFound") => http.response.status = 404
  /\ RepliedAfter("ProtectedAccount") => http.response.status \in 400..499
  /\ \A class \in {"ReferentialOrderingViolation", "AlreadyDeleted",
                   "TransactionConflict", "Unknown"} :
       RepliedAfter(class) => http.response.status = 500

\* C15 (caller behaviour on success): a delete-account handler clears the
\* 'token' cookie and sends the success reply only once deleteUserAndData has
\* returned successfully; while the request is being handled nothing is sent,
\* and when the erasure fails, or the password check of the auth route fails,
\* the cookie is not cleared and the reply is not a success reply.
CallerOnSuccess ==
  /\ http.stage \in {"check", "erase"} =>
       ~http.cookieCleared /\ http.response = None
  /\ http.cookieCleared => http.stage = "responded" /\ http.outcome = "success"
  /\ (http.stage = "responded" /\ http.response.success) => http.outcome = "success"
  /\ (http.stage = "responded" /\ http.outcome # "success") =>
       ~http.cookieCleared /\ ~http.response.success /\ http.response.status >= 400

\* the auth route has erased a user that had account rows, cleared the
\* cookie and sent the success reply
CallerOnSuccessWitness ==
  /\ http.stage = "responded"
  /\ http.route = "auth"
  /\ http.outcome = "success"
  /\ http.cookieCleared
  /\ http.response = SuccessReply
  /\ Matching(db, "user", http.userId) = {}
  /\ Cardinality(db["session"]) = 2 * MaxRows

\* the account, session and audit families
AccountFamilies ==
  {"userSettings", "userRole", "verificationToken", "session", "userMedia",
   "userActivityLog", "report"}

\* C16 (account, session and audit families last), as stated: no purge of
\* another family begins after the purge of one of these families has begun,
\* and they are the purges that immediately precede the deletion of the User
\* row.
AccountFamiliesLast ==
  /\ \A a \in AccountFamilies : \A f \in Families \ AccountFamilies :
       Started(a) => f \in Range(purged)
  /\ pc = "userDelete" =>
       {purged[i] : i \in (Len(purged) - Cardinality(AccountFamilies) + 1)..Len(purged)}
         = AccountFamilies

\* C16 amended: the account, session and audit families are purged after
\* every story, comment, messaging, engagement, social-graph and notification
\* family; postTag and post are purged after userMedia, userActivityLog,
\* userSettings, userRole, verificationToken and session and before report,
\* whose purge is the one immediately before the deletion of the User row.
AccountFamiliesLate ==
  /\ \A a \in AccountFamilies :
       \A f \in Families \ (AccountFamilies \cup {"postTag", "post"}) :
         Started(a) => f \in Range(purged)
  /\ Started("postTag") => (AccountFamilies \ {"report"}) \subseteq Range(purged)
  /\ Started("report") => {"postTag", "post"} \subseteq Range(purged)
  /\ pc = "userDelete" => purged[Len(purged)] = "report"

\* the run is about to delete the User row after it removed sessions, posts
\* and reports of the user
AccountFamiliesLateWitness ==
  /\ pc = "userDelete"
  /\ \A f \in {"session", "userMedia", "post", "postTag", "report"} :
       Matching(db0, f, Target) # {} /\ Matching(tx, f, Target) = {}

\* C17 (batch exhaustion boundary): deleteInBatches never returns right
\* after a delete call that removed exactly batchSize rows - such a call is
\* followed by a further call - and a family of exactly batchSize matching
\* rows is emptied by the first call, confirmed by a second call that
\* removes 0 rows, and reported with a total of batchSize.
BatchExhaustion ==
  /\ \A i \in 1..Len(bCalls) :
       bCalls[i] = bSize => i < Len(bCalls) \/ bpc \in {"loop", "threw"}
  /\ bpc = "returned" => bCalls[Len(bCalls)] < bSize
  /\ (bCalls # << >> /\ bN = bSize) => bCalls[1] = bSize /\ bRows = 0
  /\ (bpc = "returned" /\ bN = bSize) => bCalls = <<bSize, 0>> /\ bTotal = bSize

\* a family of exactly BATCH_SIZE rows has been purged
BatchExhaustionWitness ==
  /\ bpc = "returned"
  /\ bSize = BATCH_SIZE
  /\ bN = BATCH_SIZE
  /\ bCalls = <<BATCH_SIZE, 0>>
  /\ bTotal = BATCH_SIZE

\* the call in progress passed preflight and a concurrent call for the same
\* id has committed its erasure since
RivalWon ==
  /\ pc \notin {"idle", "validate", "done"}
  /\ failedAt \notin {"lookup", "preflight"}
  /\ Matching(db0, "user", Target) # {}
  /\ Matching(db, "user", Target) = {}

\* C18 (same-user race), as stated: of two concurrent calls for the same id
\* that both passed preflight, the one that does not complete the erasure
\* never gets to commit (so it never returns success), and the row-not-found error it fails with is the
\* one raised by the final deletion of the User row.
SameUserRace ==
  RivalWon =>
    /\ pc # "commit"
    /\ (pc = "failed" /\ thrown = WrapError(RecordNotFoundError, Target)) =>
         failedAt = "userDelete" /\ errClass = "AlreadyDeleted"

\* C18 amended: the call that does not complete never gets to commit; its
\* row-not-found error is raised by the first statement that addresses the
\* User row - the soft-delete update when the guard is enabled, the final
\* delete otherwise - and reaches the caller as the generic wrapped Error.
SameUserRaceFirstWrite ==
  RivalWon =>
    /\ pc # "commit"
    /\ pc \in {"purge", "userDelete"} => ~args.enableSoftDelete
    /\ (pc = "failed" /\ thrown = WrapError(RecordNotFoundError, Target)) =>
         /\ failedAt = IF args.enableSoftDelete THEN "softDelete" ELSE "userDelete"
         /\ errClass = "AlreadyDeleted"
         /\ result = None

\* the call with the guard enabled has lost the race and failed on the
\* missing User row, in a store where the user had rows in every family
SameUserRaceWitness ==
  /\ RivalWon
  /\ pc = "failed"
  /\ args.enableSoftDelete
  /\ thrown = WrapError(RecordNotFoundError, Target)
  /\ \A f \in Families : Matching(db0, f, Target) # {}

\* C19 (soft-delete placeholders are unique): no two User rows ever share an
\* email or a username, inside the transaction or committed, and the
\* soft-delete step of an erasure never fails on a uniqueness conflict.
PlaceholdersUnique ==
  /\ \A store \in {db, tx} : \A r1, r2 \in store["user"] :
       r1.id # r2.id => r1.email # r2.email /\ r1.username # r2.username
  /\ ~(/\ pc = "failed"
       /\ failedAt = "softDelete"
       /\ thrown = WrapError(UniqueConstraintError, Target))

\* the User row of the target as the transaction sees it carries the
\* soft-delete marks
SoftDeleteWritten ==
  \A r \in Matching(tx, "user", Target) :
     /\ ~r.isActive /\ r.isBanned
     /\ \E t \in Times : r.email = <<"deleted", t>>
     /\ \E t \in Times : r.username = <<"deleted", t>>

\* C20 (step order inside the transaction): nothing is written before the
\* soft-delete update when the guard is enabled; the families are then
\* purged one at a time, each exactly once - while a family is being purged
\* the purges before it have returned and no row of a later family has been
\* touched - and the User row is deleted after the last purge has returned,
\* as the last write.
StepOrder ==
  /\ pc \in {"begin", "softDelete"} => tx = db0 /\ purged = << >>
  /\ (pc \in {"purge", "userDelete"} /\ args.enableSoftDelete) => SoftDeleteWritten
  /\ pc = "purge" =>
       /\ Len(purged) = step - 1
       /\ \A i \in (step + 1)..NumFamilies : tx[ModelAt(i)] = db0[ModelAt(i)]
  /\ \A i, j \in 1..Len(purged) : i # j => purged[i] # purged[j]
  /\ pc \in {"purge", "userDelete"} =>
       Range(purged) \subseteq Families /\ Matching(tx, "user", Target) # {}
  /\ pc \in {"userDelete", "commit", "done"} =>
       /\ Families \subseteq Range(purged)
       /\ Len(purged) = Cardinality(Families) + (IF pc = "userDelete" THEN 0 ELSE 1)
  /\ pc \in {"commit", "done"} =>
       purged[Len(purged)] = "user" /\ Matching(tx, "user", Target) = {}

\* a run with the guard enabled has removed rows of every family and the
\* User row and is about to commit
StepOrderWitness ==
  /\ pc = "commit"
  /\ args.enableSoftDelete
  /\ \A f \in Families : Matching(db0, f, Target) # {} /\ Matching(tx, f, Target) = {}

ErrorsStopCascade ==
  /\ [](failedAt # "none" =>
          pc = "failed" /\ thrown # None /\ result = None /\ tx = db)
  /\ [](pc = "done" => thrown = None /\ errClass = "none")
  /\ [][pc = "failed" => pc' = "idle" /\ db' = db /\ tx' = tx /\ result' = None]_vars

\* a delete call failed after earlier families had been purged, while rows
\* of later families and the User row were still there
ErrorsStopCascadeWitness ==
  /\ pc = "failed"
  /\ failedAt = "purge"
  /\ dirtyAtFail
  /\ Matching(db, "report", Target) # {}
  /\ Matching(db, "user", Target) # {}

\* the call in progress targets an existing user that is banned or inactive
\* and is not an administrator
BannedTarget ==
  /\ pc # "idle"
  /\ \E r \in Matching(db0, "user", Target) : r.isBanned \/ ~r.isActive
  /\ RoleOf(db0, Target) # "ADMIN"

\* the same store with the user neither banned nor inactive
Unbanned(store, u) ==
  [store EXCEPT !["user"] =
     {IF r.id = u THEN [r EXCEPT !.isBanned = FALSE, !.isActive = TRUE] ELSE r :
        r \in @}]

\* C23 (banned or inactive accounts are not rejected): a call on a banned or
\* inactive non-admin user is not turned away by preflight, and when it
\* succeeds it leaves the store and returns the deletedCounts that the
\* cascade gives for the same user when not banned.
BannedNotRejected ==
  BannedTarget =>
    /\ failedAt # "preflight"
    /\ ValidationError(db0, Target) = ValidationError(Unbanned(db0, Target), Target)
    /\ pc = "done" =>
         /\ db = ErasedStore(Unbanned(db0, Target), Target)
         /\ result.deletedCounts = FirstRunCounts(Unbanned(db0, Target), Target)

\* a banned user with rows in every family has been erased
BannedNotRejectedWitness ==
  /\ BannedTarget
  /\ pc = "done"
  /\ \A f \in Families : Matching(db0, f, Target) # {}

\* C24 (inter-batch pacing): deleteInBatches pauses for BATCH_DELAY_MS after
\* every full batch, before the delete call that follows it, and nowhere
\* else: while the loop runs (or when the next call threw) there is one pause
\* per delete call that returned, and once the purger has returned the
\* pauses number one less than its delete calls - none follows the last,
\* short batch; 2500 rows with batch size 1000 wait twice, 200 ms in all.
InterBatchPacing ==
  /\ bpc \in {"loop", "threw"} => bPauses = Len(bCalls)
  /\ bpc = "returned" => bPauses = Len(bCalls) - 1
  /\ bPauses = Cardinality({i \in 1..Len(bCalls) : bCalls[i] = bSize})
  /\ (bpc = "returned" /\ bN = 2500 /\ bSize = BATCH_SIZE) =>
       bPauses * BATCH_DELAY_MS = 200

\* the purger has returned after three full batches and a short one
InterBatchPacingWitness ==
  /\ bpc = "returned"
  /\ Len(bCalls) = 4
  /\ bPauses = 3
  /\ bCalls[4] < bSize

\* C25 (admin protection under interleaving): no erasure transaction gets
\* to commit the removal of the User row, with all its dependent rows, of a
\* user whose committed role has been ADMIN since before the transaction
\* began.
AdminNeverRemoved ==
  (pc = "commit" /\ Matching(tx, "user", Target) = {}) =>
    RoleOf(db, Target) # "ADMIN"

\* C26 (erasure succeeds despite other users' engagement): while
\* deleteUserAndData runs for an existing non-admin user, no step of the
\* cascade is one the store rejects with a foreign-key violation: every
\* batch the current family's deleteMany can remove, and the final removal
\* of the User row, leaves no row of another table referencing a removed row.
NoForeignKeyAbort ==
  /\ pc = "purge" =>
       \A removed \in DeleteManyChoices(tx, ModelAt(step), args.userId, BATCH_SIZE) :
          ~FkViolation(tx, ModelAt(step), removed)
  /\ pc = "userDelete" =>
       ~FkViolation(tx, "user", Matching(tx, "user", args.userId))

LikesCountConsistent ==
  \A p \in db["post"] :
     p.likesCount =
       Cardinality({l \in db["like"] : l.postId = p.id /\ ~l.isRemoved})

\* C29 (the soft-delete guard does not change the outcome): when nothing
\* else writes to the store during the call, deleteUserAndData(u, true) does
\* not fail on its soft-delete update with an error of that update's own (a
\* uniqueness conflict) on a store where the cascade that
\* deleteUserAndData(u, false) runs goes through.
SoftDeleteGuardNeutral ==
  (/\ pc = "failed"
   /\ args.enableSoftDelete
   /\ db = db0
   /\ failedAt = "softDelete"
   /\ thrown = WrapError(UniqueConstraintError, args.userId))
    => ~Integrity(ErasedStore(db0, args.userId))

\* C30 (preview agrees with the cascade on shared families): when
\* previewUserDeletion(u) has returned its counts and the deleteUserAndData(u)
\* that follows it, with no write in between, succeeds, each of the eleven
\* preview counts equals the deletedCounts entry of the same name.
PreviewAgreesWithCascade ==
  (pc = "done" /\ pvPrev # None) =>
    /\ pvPrev.userId = args.userId
    /\ \A k \in PreviewKeys :
         /\ k \in DOMAIN result.deletedCounts
         /\ result.deletedCounts[k] = pvPrev.counts[k]

\* a previewed user with posts, follow edges and messages has been erased
PreviewAgreesWitness ==
  /\ pc = "done"
  /\ pvPrev # None
  /\ pvPrev.counts["posts"] > 0
  /\ pvPrev.counts["follows"] > 1
  /\ pvPrev.counts["messages"] > 1
  /\ pvPrev.counts["notifications"] > 1

====
